---- MODULE Spec2Model ----
(***************************************************************************)
(* GenericLookup (pkg/serviceprovider/lookup.go): the concurrent lookup of *)
(* SPIAccessTokens matching a Matchable, and LookupCredentials' fallback   *)
(* from access tokens to remote secrets.                                   *)
(*                                                                         *)
(* Strings whose characters the code inspects (the repository URL, the     *)
(* repository annotation of a RemoteSecret) are sequences of one-character *)
(* strings.  The answers of the external collaborators (the object store,  *)
(* the token storage, the configured filters) are recorded in env the      *)
(* first time the program observes them, and stay fixed afterwards: a      *)
(* second call of LookupCredentials sees the same store as the first.      *)
(***************************************************************************)
EXTENDS Integers, Sequences, FiniteSets, TLC

\* -------------------------------------------------------------- bounds
\* Most SPIAccessTokens the token List returns.
MaxTokens == 2
\* Most RemoteSecrets the remote-secret List returns.
MaxRemoteSecrets == 2
\* Calls of LookupCredentials on the same store (SpecTwice).
MaxCalls == 2

\* ------------------------------------------------------------- strings
Letters == {"a", "b", "h", "s"}
Digits == {"1"}

\* strings.HasPrefix
HasPrefix(s, p) == Len(s) >= Len(p) /\ SubSeq(s, 1, Len(p)) = p

\* strings.Index: the 0-based index of the first occurrence of sub, or -1.
Index(s, sub) ==
    LET hits == {k \in 0..(Len(s) - Len(sub)) : SubSeq(s, k + 1, k + Len(sub)) = sub}
    IN IF hits = {} THEN -1 ELSE CHOOSE k \in hits : \A j \in hits : k <= j

\* strings.LastIndex: the 0-based index of the last occurrence of sub, or -1.
LastIndex(s, sub) ==
    LET hits == {k \in 0..(Len(s) - Len(sub)) : SubSeq(s, k + 1, k + Len(sub)) = sub}
    IN IF hits = {} THEN -1 ELSE CHOOSE k \in hits : \A j \in hits : k >= j

\* strings.TrimPrefix: s without ONE leading occurrence of p.
TrimPrefix(s, p) == IF HasPrefix(s, p) THEN SubSeq(s, Len(p) + 1, Len(s)) ELSE s

\* strings.Split(s, c) for a one-character separator: always at least one piece.
RECURSIVE Split(_, _)
Split(s, c) ==
    LET k == Index(s, <<c>>)
    IN IF k = -1 THEN <<s>>
       ELSE <<SubSeq(s, 1, k)>> \o Split(SubSeq(s, k + 2, Len(s)), c)

\* slices.Contains
Contains(list, x) == \E k \in 1..Len(list) : list[k] = x

\* commaseparated.Value(v).Values(): the comma-separated items of v; no items
\* for the empty value.
Values(v) == IF v = <<>> THEN <<>> ELSE Split(v, ",")

\* ------------------------------------------------------------ URL parser
\* net/url getScheme: letters, and digits after the first character, up to the
\* first ':' are the scheme; a ':' in first position is an error; a digit in
\* first position or any other character means no scheme.
RECURSIVE getScheme(_, _)
getScheme(rawURL, i) ==
    IF i > Len(rawURL) THEN [err |-> FALSE, scheme |-> <<>>, rest |-> rawURL]
    ELSE IF rawURL[i] \in Letters THEN getScheme(rawURL, i + 1)
    ELSE IF rawURL[i] \in Digits THEN
        IF i = 1 THEN [err |-> FALSE, scheme |-> <<>>, rest |-> rawURL]
        ELSE getScheme(rawURL, i + 1)
    ELSE IF rawURL[i] = ":" THEN
        IF i = 1 THEN [err |-> TRUE, scheme |-> <<>>, rest |-> <<>>]
        ELSE [err |-> FALSE, scheme |-> SubSeq(rawURL, 1, i - 1),
              rest |-> SubSeq(rawURL, i + 1, Len(rawURL))]
    ELSE [err |-> FALSE, scheme |-> <<>>, rest |-> rawURL]

\* net/url validOptionalPort on the part of the host from its last ':': empty,
\* or the ':' followed by digits only.
validOptionalPort(port) ==
    \/ port = <<>>
    \/ port[1] = ":" /\ \A k \in 2..Len(port) : port[k] \in Digits

\* net/url parseAuthority/parseHost: the host, with an optional port.
parseAuthority(authority) ==
    LET k == LastIndex(authority, <<":">>)
    IN IF k = -1 THEN [err |-> FALSE, host |-> authority]
       ELSE IF validOptionalPort(SubSeq(authority, k + 1, Len(authority)))
            THEN [err |-> FALSE, host |-> authority]
            ELSE [err |-> TRUE, host |-> <<>>]

\* net/url Parse, on strings over Letters, Digits, ':' and '/': scheme, then either an
\* opaque rest, or "//" authority and the path.
UrlParse(rawURL) ==
    LET s == getScheme(rawURL, 1)
        bad == [err |-> TRUE, Host |-> <<>>, Path |-> <<>>]
    IN IF s.err THEN bad
       ELSE IF ~HasPrefix(s.rest, <<"/">>) /\ s.scheme # <<>>
            THEN [err |-> FALSE, Host |-> <<>>, Path |-> <<>>]
       ELSE IF ~HasPrefix(s.rest, <<"/">>) /\ Contains(Split(s.rest, "/")[1], ":")
            THEN bad
       ELSE IF HasPrefix(s.rest, <<"/", "/">>)
                  /\ (s.scheme # <<>> \/ ~HasPrefix(s.rest, <<"/", "/", "/">>))
            THEN LET after == SubSeq(s.rest, 3, Len(s.rest))
                     k == Index(after, <<"/">>)
                     authority == IF k = -1 THEN after ELSE SubSeq(after, 1, k)
                     path == IF k = -1 THEN <<>> ELSE SubSeq(after, k + 1, Len(after))
                     a == parseAuthority(authority)
                 IN IF a.err THEN bad
                    ELSE [err |-> FALSE, Host |-> a.host, Path |-> path]
       ELSE [err |-> FALSE, Host |-> <<>>, Path |-> s.rest]

\* RepoUrlFromString: url.Parse, its error wrapped.
RepoUrlFromString(repoUrl) == UrlParse(repoUrl)

\* Mutant of RepoUrlFromSchemalessString: a ':' alone counts as a scheme.
RepoUrlFromSchemalessStringColonOnly(repoUrl) ==
    IF Index(repoUrl, <<":">>) = -1
    THEN RepoUrlFromString(<<"h", "s", ":", "/", "/">> \o repoUrl)
    ELSE RepoUrlFromString(repoUrl)

\* RepoUrlFromSchemalessString: "https://" (here the letters-only scheme "hs")
\* is prepended when "://" is absent.
RepoUrlFromSchemalessString(repoUrl) ==
    IF Index(repoUrl, <<":", "/", "/">>) = -1
    THEN RepoUrlFromString(<<"h", "s", ":", "/", "/">> \o repoUrl)
    ELSE RepoUrlFromString(repoUrl)

\* GenericLookup.RepoUrlParser as newGitlab configures it.
RepoUrlParser(repoUrl) == RepoUrlFromSchemalessString(repoUrl)

\* ------------------------------------------------------------- the data
\* A listed SPIAccessToken: its phase, and what MetadataCache.Ensure and
\* TokenFilter.Matches answer for it.  The filter's answer of a token whose
\* Ensure fails, and both answers of a token that is not Ready, are never
\* observed by the code; they are fixed to the answers that would matter most.
TokenKinds ==
    { [phase |-> "Ready", ensure |-> "ok", matches |-> "true"],
      [phase |-> "Ready", ensure |-> "ok", matches |-> "false"],
      [phase |-> "Ready", ensure |-> "ok", matches |-> "err"],
      [phase |-> "Ready", ensure |-> "err", matches |-> "true"],
      [phase |-> "AwaitingTokenData", ensure |-> "ok", matches |-> "true"],
      [phase |-> "AwaitingTokenData", ensure |-> "err", matches |-> "true"] }

SeqsUpTo(S, n) == UNION {[1..k -> S] : k \in 0..n}

\* The namespace of the Matchable (ObjNamespace) and another one.
LocalNs == "ns"
OtherNs == "other"

\* RemoteSecret status targets.
Target(apiUrl, error, namespace, secretName) ==
    [ApiUrl |-> apiUrl, Error |-> error, Namespace |-> namespace, SecretName |-> secretName]

\* Listed RemoteSecrets: the repository annotation, the status targets and the
\* answer of the RemoteSecretFilter (when one is configured).
RemoteSecretKinds ==
    { [annotation |-> <<>>, filter |-> TRUE,
       targets |-> <<Target("", "", LocalNs, "s1")>>],
      [annotation |-> <<"a">>, filter |-> TRUE,
       targets |-> <<Target("remote", "", LocalNs, "s2"), Target("", "", LocalNs, "s3")>>],
      [annotation |-> <<"b", ",", "a">>, filter |-> TRUE,
       targets |-> <<Target("", "failed", LocalNs, "s4"), Target("", "", OtherNs, "s5")>>],
      [annotation |-> <<"/", "a">>, filter |-> TRUE,
       targets |-> <<>>],
      [annotation |-> <<"a">>, filter |-> FALSE,
       targets |-> <<Target("", "", LocalNs, "s6")>>],
      [annotation |-> <<"b">>, filter |-> TRUE,
       targets |-> <<Target("", "", LocalNs, "s7"), Target("", "", LocalNs, "s8")>>] }

\* Repository URLs of the Matchable: "h/a", "h", "s://h//a" and, with a port
\* that is not a number, "h:a".
RepoUrls ==
    { <<"h", "/", "a">>, <<"h">>, <<"s", ":", "/", "/", "h", "/", "/", "a">>,
      <<"h", ":", "a">> }

\* What TokenStorage.Get answers for one token: an error, no data, or data.
StorageAnswers == {"err", "nil", "d1", "d2"}

\* api.Token as TokenStorage.Get returns it for stored data d.
TokenData(d) == [Username |-> <<"user", d>>, AccessToken |-> <<"token", d>>]

\* v1.Secret data of the Secret named n (basic-auth keys).
SecretData(n) == [username |-> <<"user", n>>, password |-> <<"password", n>>]

\* Go errors: the kind, and for an aggregate the errors it wraps (here the
\* candidates whose evaluation failed, in the order they were appended).
Error(kind) == [kind |-> kind, aggregate |-> <<>>]
Aggregate(es) == [kind |-> "aggregate", aggregate |-> es]
NoError == Error("nil")

VARIABLES
    matchable,          \* the Matchable: RepoUrl and ObjNamespace
    spiAccessTokens,    \* SPIAccessTokens the store holds for the label selection
    env,                \* answers of the collaborators, as observed so far
    pc,                 \* position of the goroutine that runs LookupCredentials
    potentialMatches,   \* Lookup: potentialMatches.Items
    i,                  \* Lookup: index of the range loop over potentialMatches
    tpc,                \* position of the goroutine spawned for each candidate
    local,              \* per goroutine: the slice value read by append
    mutex,              \* sync.Mutex: 0 when unlocked, else the holder
    wg,                 \* sync.WaitGroup counter
    errs,               \* Lookup: errs
    result,             \* Lookup: result
    ret,                \* what Lookup returned
    remoteSecrets,      \* LookupCredentials: the filtered RemoteSecrets
    matchingRemoteSecret, \* lookupRemoteSecretSecret: name of the chosen RemoteSecret
    secretName,         \* lookupRemoteSecretSecret: SecretName of the target
    out,                \* what LookupCredentials returned
    log,                \* the calls issued to the collaborators
    prev,               \* outcome of the previous LookupCredentials call
    calls,              \* number of LookupCredentials calls started
    parsed,             \* a repo URL string and what the two parsers make of it
    validation,         \* Gitlab.Validate: its input and its ValidationResult
    ac                  \* Gitlab.CheckRepositoryAccess: its position, calls and status

vars == <<matchable, spiAccessTokens, env, pc, potentialMatches, i, tpc, local, mutex,
          wg, errs, result, ret, remoteSecrets, matchingRemoteSecret, secretName, out,
          log, prev, calls, parsed, validation, ac>>

Tasks == 1..Len(spiAccessTokens)

NoRet == [done |-> FALSE, tokens |-> <<>>, err |-> NoError]
NoOut == [done |-> FALSE, creds |-> <<>>, err |-> NoError]
EmptyLog == [ensure |-> {}, filter |-> {}, storageGet |-> <<>>, rsList |-> 0, secretGet |-> <<>>]

\* The state of one call before its first step.
CallInit ==
    /\ pc = "Lookup:parse"
    /\ potentialMatches = <<>>
    /\ i = 1
    /\ tpc = [t \in Tasks |-> "idle"]
    /\ local = [t \in Tasks |-> <<>>]
    /\ mutex = 0
    /\ wg = 0
    /\ errs = <<>>
    /\ result = <<>>
    /\ ret = NoRet
    /\ remoteSecrets = <<>>
    /\ matchingRemoteSecret = 0
    /\ secretName = ""
    /\ out = NoOut
    /\ log = EmptyLog

\* No URL string under the parsers, no Validate call, no access check.
NoUrl == [err |-> FALSE, Host |-> <<>>, Path |-> <<>>]
NoParsed == [input |-> <<>>, schemalessDone |-> FALSE, fromStringDone |-> FALSE,
             schemaless |-> NoUrl, fromString |-> NoUrl, prefixed |-> NoUrl]
NoValidation == [pc |-> "none", Required |-> <<>>, AdditionalScopes |-> <<>>,
                 ret |-> <<>>, err |-> NoError]
NoStatus == [Accessible |-> FALSE, Accessibility |-> "", ErrorReason |-> "",
             ErrorMessage |-> ""]
NoProject == [err |-> FALSE, StatusCode |-> "?", Visibility |-> ""]
NoAnswers == [public |-> "?", owner |-> "?", client |-> "?", project |-> NoProject]
NoAccessCheck == [pc |-> "none", answers |-> NoAnswers, status |-> NoStatus,
                  err |-> NoError]

\* The collaborators before the program has observed any answer.
EnvInit ==
    [list |-> "?", storage |-> [t \in Tasks |-> "?"], filterNil |-> "?",
     rsList |-> "?", remoteSecretList |-> <<>>, secretGet |-> "?"]

InitWith(urls) ==
    /\ parsed = NoParsed
    /\ validation = NoValidation
    /\ ac = NoAccessCheck
    /\ matchable \in [RepoUrl : urls, ObjNamespace : {LocalNs}]
    /\ spiAccessTokens \in SeqsUpTo(TokenKinds, MaxTokens)
    /\ env = EnvInit
    /\ prev = <<>>
    /\ calls = 1
    /\ CallInit

Init == InitWith(RepoUrls)

\* Repeated calls are explored for the Matchable of "h/a".
InitTwice == InitWith({<<"h", "/", "a">>})

\* The answer of a collaborator: any of S the first time, the recorded one after.
Answers(field, S) == IF env[field] = "?" THEN S ELSE {env[field]}

callVars == <<matchable, spiAccessTokens, prev, calls, parsed, validation, ac>>
rsVars == <<remoteSecrets, matchingRemoteSecret, secretName>>
taskVars == <<tpc, local, mutex, wg, errs, result>>

\* ------------------------------------------------------- Lookup (main)
\* Lookup's return value: (result, err).
Returned(tokens, err) == [done |-> TRUE, tokens |-> tokens, err |-> err]

\* Lookup, lines 91-94: the repo URL is parsed; on an error Lookup returns.
LookupParse ==
    /\ pc = "Lookup:parse"
    /\ IF RepoUrlParser(matchable.RepoUrl).err
       THEN /\ ret' = Returned(result, Error("parse"))
            /\ pc' = "LookupCredentials:lookupReturned"
       ELSE /\ ret' = ret
            /\ pc' = "Lookup:list"
    /\ UNCHANGED <<callVars, env, potentialMatches, i, taskVars, rsVars, out, log>>

\* Lookup, lines 96-101: cl.List of the tokens labelled with provider type and host.
LookupList ==
    /\ pc = "Lookup:list"
    /\ \E a \in Answers("list", {"ok", "err"}) :
        /\ env' = [env EXCEPT !.list = a]
        /\ IF a = "err"
           THEN /\ ret' = Returned(result, Error("list"))
                /\ pc' = "LookupCredentials:lookupReturned"
                /\ UNCHANGED potentialMatches
           ELSE /\ potentialMatches' = spiAccessTokens
                /\ pc' = "Lookup:loop"
                /\ UNCHANGED ret
    /\ UNCHANGED <<callVars, i, taskVars, rsVars, out, log>>

\* Lookup, lines 109-113: a candidate that is not Ready is skipped.
LoopSkip ==
    /\ pc = "Lookup:loop"
    /\ i <= Len(potentialMatches)
    /\ potentialMatches[i].phase # "Ready"
    /\ i' = i + 1
    /\ UNCHANGED <<callVars, env, pc, potentialMatches, taskVars, ret, rsVars, out, log>>

\* Mutant of LoopSpawn: a goroutine starts for every candidate, Ready or not.
LoopSpawnAnyPhase ==
    /\ pc = "Lookup:loop"
    /\ i <= Len(potentialMatches)
    /\ wg' = wg + 1
    /\ tpc' = [tpc EXCEPT ![i] = "ensure"]
    /\ i' = i + 1
    /\ UNCHANGED <<callVars, env, pc, potentialMatches, local, mutex, errs, result, ret,
                   rsVars, out, log>>

\* Lookup, lines 115-116: wg.Add(1) and the goroutine of a Ready candidate starts.
LoopSpawn ==
    /\ pc = "Lookup:loop"
    /\ i <= Len(potentialMatches)
    /\ potentialMatches[i].phase = "Ready"
    /\ wg' = wg + 1
    /\ tpc' = [tpc EXCEPT ![i] = "ensure"]
    /\ i' = i + 1
    /\ UNCHANGED <<callVars, env, pc, potentialMatches, local, mutex, errs, result, ret,
                   rsVars, out, log>>

\* Lookup, line 141: the range loop ends.
LoopEnd ==
    /\ pc = "Lookup:loop"
    /\ i > Len(potentialMatches)
    /\ pc' = "Lookup:wait"
    /\ UNCHANGED <<callVars, env, potentialMatches, i, taskVars, ret, rsVars, out, log>>

\* Mutant of Wait: Lookup goes on without waiting for the goroutines.
WaitNoBarrier ==
    /\ pc = "Lookup:wait"
    /\ pc' = "Lookup:return"
    /\ UNCHANGED <<callVars, env, potentialMatches, i, taskVars, ret, rsVars, out, log>>

\* Lookup, line 143: wg.Wait() returns once the counter is zero.
Wait ==
    /\ pc = "Lookup:wait"
    /\ wg = 0
    /\ pc' = "Lookup:return"
    /\ UNCHANGED <<callVars, env, potentialMatches, i, taskVars, ret, rsVars, out, log>>

\* Mutant of LookupResult: the matches found are returned although errors were collected.
LookupResultPartial(es, res) ==
    IF Len(es) > 0 /\ Len(res) = 0 THEN Returned(<<>>, Aggregate(es))
    ELSE Returned(res, NoError)

\* Lookup, lines 145-151: an aggregated error and no tokens when any error was
\* collected, the accumulated result otherwise.
LookupResult(es, res) ==
    IF Len(es) > 0 THEN Returned(<<>>, Aggregate(es)) ELSE Returned(res, NoError)

LookupReturn ==
    /\ pc = "Lookup:return"
    /\ ret' = LookupResult(errs, result)
    /\ pc' = "LookupCredentials:lookupReturned"
    /\ UNCHANGED <<callVars, env, potentialMatches, i, taskVars, rsVars, out, log>>

\* ------------------------------------------- Lookup (per-candidate task)
\* Mutant of AfterEnsure: the filter is evaluated although Ensure failed.
AfterEnsureIgnoringErr(a) == "matches"

\* Position after MetadataCache.Ensure answered a (lines 119-125).
AfterEnsure(a) == IF a = "err" THEN "lockErr" ELSE "matches"

\* Line 119: MetadataCache.Ensure for the candidate.
TaskEnsure(t) ==
    /\ tpc[t] = "ensure"
    /\ tpc' = [tpc EXCEPT ![t] = AfterEnsure(potentialMatches[t].ensure)]
    /\ log' = [log EXCEPT !.ensure = @ \cup {t}]
    /\ UNCHANGED <<callVars, env, pc, potentialMatches, i, local, mutex, wg, errs, result,
                   ret, rsVars, out>>

\* Mutant of AfterMatches: the token is appended whatever the filter answered.
AfterMatchesIgnoringOk(a) == IF a = "err" THEN "lockErr" ELSE "lockResult"

\* Position after TokenFilter.Matches answered a (lines 127-139).
AfterMatches(a) ==
    CASE a = "err" -> "lockErr"
      [] a = "true" -> "lockResult"
      [] OTHER -> "wgDone"

\* Line 127: TokenFilter.Matches for the candidate.
TaskMatches(t) ==
    /\ tpc[t] = "matches"
    /\ tpc' = [tpc EXCEPT ![t] = AfterMatches(potentialMatches[t].matches)]
    /\ log' = [log EXCEPT !.filter = @ \cup {t}]
    /\ UNCHANGED <<callVars, env, pc, potentialMatches, i, local, mutex, wg, errs, result,
                   ret, rsVars, out>>

\* Mutant of Lock: the lock is taken without waiting for its holder.
LockNoWait(t) == mutex' = t

\* mutex.Lock() (lines 120, 129, 136): blocks while another goroutine holds it.
Lock(t) == mutex = 0 /\ mutex' = t

\* Lines 120, 129: the lock is taken before the error is appended.
TaskLockErr(t) ==
    /\ tpc[t] = "lockErr"
    /\ Lock(t)
    /\ tpc' = [tpc EXCEPT ![t] = "readErrs"]
    /\ UNCHANGED <<callVars, env, pc, potentialMatches, i, local, wg, errs, result, ret,
                   rsVars, out, log>>

\* Lines 123, 132: errs = append(errs, err), the read of errs.
TaskReadErrs(t) ==
    /\ tpc[t] = "readErrs"
    /\ local' = [local EXCEPT ![t] = errs]
    /\ tpc' = [tpc EXCEPT ![t] = "writeErrs"]
    /\ UNCHANGED <<callVars, env, pc, potentialMatches, i, mutex, wg, errs, result, ret,
                   rsVars, out, log>>

\* Lines 123, 132: errs = append(errs, err), the write of errs.
TaskWriteErrs(t) ==
    /\ tpc[t] = "writeErrs"
    /\ errs' = Append(local[t], t)
    /\ local' = [local EXCEPT ![t] = <<>>]
    /\ tpc' = [tpc EXCEPT ![t] = "unlock"]
    /\ UNCHANGED <<callVars, env, pc, potentialMatches, i, mutex, wg, result, ret,
                   rsVars, out, log>>

\* Line 136: the lock is taken before the token is appended.
TaskLockResult(t) ==
    /\ tpc[t] = "lockResult"
    /\ Lock(t)
    /\ tpc' = [tpc EXCEPT ![t] = "readResult"]
    /\ UNCHANGED <<callVars, env, pc, potentialMatches, i, local, wg, errs, result, ret,
                   rsVars, out, log>>

\* Line 138: result = append(result, tkn), the read of result.
TaskReadResult(t) ==
    /\ tpc[t] = "readResult"
    /\ local' = [local EXCEPT ![t] = result]
    /\ tpc' = [tpc EXCEPT ![t] = "writeResult"]
    /\ UNCHANGED <<callVars, env, pc, potentialMatches, i, mutex, wg, errs, result, ret,
                   rsVars, out, log>>

\* Line 138: result = append(result, tkn), the write of result.
TaskWriteResult(t) ==
    /\ tpc[t] = "writeResult"
    /\ result' = Append(local[t], t)
    /\ local' = [local EXCEPT ![t] = <<>>]
    /\ tpc' = [tpc EXCEPT ![t] = "unlock"]
    /\ UNCHANGED <<callVars, env, pc, potentialMatches, i, mutex, wg, errs, ret,
                   rsVars, out, log>>

\* Mutant of TaskUnlock: the goroutine leaves without releasing the mutex.
TaskUnlockForgotten(t) ==
    /\ tpc[t] = "unlock"
    /\ tpc' = [tpc EXCEPT ![t] = "wgDone"]
    /\ UNCHANGED <<callVars, env, pc, potentialMatches, i, local, mutex, wg, errs, result,
                   ret, rsVars, out, log>>

\* Lines 121, 130, 137: the deferred mutex.Unlock().
TaskUnlock(t) ==
    /\ tpc[t] = "unlock"
    /\ mutex' = 0
    /\ tpc' = [tpc EXCEPT ![t] = "wgDone"]
    /\ UNCHANGED <<callVars, env, pc, potentialMatches, i, local, wg, errs, result, ret,
                   rsVars, out, log>>

\* Mutant of TaskDone: the goroutine ends without wg.Done().
TaskDoneForgotten(t) ==
    /\ tpc[t] = "wgDone"
    /\ tpc' = [tpc EXCEPT ![t] = "exited"]
    /\ UNCHANGED <<callVars, env, pc, potentialMatches, i, local, mutex, wg, errs, result,
                   ret, rsVars, out, log>>

\* Line 118: the deferred wg.Done(), last on every exit path.
TaskDone(t) ==
    /\ tpc[t] = "wgDone"
    /\ wg' = wg - 1
    /\ tpc' = [tpc EXCEPT ![t] = "exited"]
    /\ UNCHANGED <<callVars, env, pc, potentialMatches, i, local, mutex, errs, result, ret,
                   rsVars, out, log>>

\* --------------------------------------------------- LookupCredentials
\* LookupCredentials' return value: (*Credentials, err); no credentials is <<>>.
Outcome(creds, err) == [done |-> TRUE, creds |-> creds, err |-> err]

lookupVars == <<potentialMatches, i, tpc, local, mutex, wg, errs, result, ret>>

\* Mutant of AfterLookup: Lookup's error is not looked at.
AfterLookupIgnoringErr(r) ==
    IF Len(r.tokens) > 0 THEN "LookupCredentials:storageGet" ELSE "lookupRemoteSecrets"

\* Mutant of AfterLookup: the remote secrets are consulted although a token matched.
AfterLookupIgnoringTokens(r) == IF r.err # NoError THEN "done" ELSE "lookupRemoteSecrets"

\* Lines 161-166 and 177: Lookup's error is returned as it is; with a token
\* the token storage is asked, without one the remote secrets.
AfterLookup(r) ==
    IF r.err # NoError THEN "done"
    ELSE IF Len(r.tokens) > 0 THEN "LookupCredentials:storageGet"
    ELSE "lookupRemoteSecrets"

LookupReturned ==
    /\ pc = "LookupCredentials:lookupReturned"
    /\ pc' = AfterLookup(ret)
    /\ out' = IF pc' = "done" THEN Outcome(<<>>, ret.err) ELSE out
    /\ UNCHANGED <<callVars, env, lookupVars, rsVars, log>>

\* Mutant of FromStorage: missing token data is reported as no credentials, without error.
FromStorageNilAbsent(a) ==
    CASE a = "err" -> Outcome(<<>>, Error("storageGet"))
      [] a = "nil" -> Outcome(<<>>, NoError)
      [] OTHER -> Outcome(<<[Username |-> TokenData(a).Username,
                             Token |-> TokenData(a).AccessToken]>>, NoError)

\* Lines 167-174: what LookupCredentials returns once TokenStorage.Get
\* answered a for tokens[0].
FromStorage(a) ==
    CASE a = "err" -> Outcome(<<>>, Error("storageGet"))
      [] a = "nil" -> Outcome(<<>>, Error("accessTokenNotFound"))
      [] OTHER -> Outcome(<<[Username |-> TokenData(a).Username,
                             Token |-> TokenData(a).AccessToken]>>, NoError)

\* The token LookupCredentials asks the storage for: tokens[0].
SelectedToken(tokens) == tokens[1]

\* Lines 167-174: TokenStorage.Get for the first token of Lookup's result.
StorageGet ==
    /\ pc = "LookupCredentials:storageGet"
    /\ LET t == SelectedToken(ret.tokens)
       IN \E a \in (IF env.storage[t] = "?" THEN StorageAnswers ELSE {env.storage[t]}) :
            /\ env' = [env EXCEPT !.storage[t] = a]
            /\ out' = FromStorage(a)
            /\ log' = [log EXCEPT !.storageGet = Append(@, t)]
    /\ pc' = "done"
    /\ UNCHANGED <<callVars, lookupVars, rsVars>>

\* RemoteSecrets as listed: each under its name, here its place in the listing.
Named(list) == [k \in 1..Len(list) |-> [name |-> k] @@ list[k]]

\* Mutant of Matches: the RemoteSecretFilter is not asked.
RECURSIVE MatchesUnfiltered(_, _)
MatchesUnfiltered(items, filterNil) ==
    IF items = <<>> THEN <<>>
    ELSE <<Head(items)>> \o MatchesUnfiltered(Tail(items), filterNil)

\* lookupRemoteSecrets, lines 214-220: the listed RemoteSecrets the filter
\* accepts, in listing order; all of them when no filter is configured.
RECURSIVE Matches(_, _)
Matches(items, filterNil) ==
    IF items = <<>> THEN <<>>
    ELSE IF filterNil = "nil" \/ Head(items).filter
         THEN <<Head(items)>> \o Matches(Tail(items), filterNil)
         ELSE Matches(Tail(items), filterNil)

\* lookupRemoteSecrets, lines 198-223 (called at line 177): parse, List, filter.
LookupRemoteSecrets ==
    /\ pc = "lookupRemoteSecrets"
    /\ IF RepoUrlParser(matchable.RepoUrl).err
       THEN /\ out' = Outcome(<<>>, Error("parse"))
            /\ pc' = "done"
            /\ UNCHANGED <<env, remoteSecrets, log>>
       ELSE \E a \in Answers("rsList", {"ok", "err"}) :
            \E list \in (IF env.rsList = "?"
                         THEN (IF a = "ok"
                               THEN SeqsUpTo(RemoteSecretKinds, MaxRemoteSecrets)
                               ELSE {<<>>})
                         ELSE {env.remoteSecretList}) :
            \E f \in (IF a = "ok" THEN Answers("filterNil", {"nil", "set"})
                      ELSE {env.filterNil}) :
              /\ env' = [env EXCEPT !.rsList = a, !.remoteSecretList = list,
                                    !.filterNil = f]
              /\ log' = [log EXCEPT !.rsList = @ + 1]
              /\ IF a = "err"
                 THEN /\ out' = Outcome(<<>>, Error("rsList"))
                      /\ pc' = "done"
                      /\ UNCHANGED remoteSecrets
                 ELSE /\ remoteSecrets' = Matches(Named(list), f)
                      /\ pc' = "lookupRemoteSecretSecret"
                      /\ UNCHANGED out
    /\ UNCHANGED <<callVars, lookupVars, matchingRemoteSecret, secretName>>

\* Mutant of MatchingRemoteSecret: the loop does not break, the last
\* RemoteSecret whose annotation lists path wins.
RECURSIVE MatchingRemoteSecretNoBreak(_, _, _)
MatchingRemoteSecretNoBreak(rss, path, k) ==
    LET scoped == {j \in k..Len(rss) :
                     Contains(Values(rss[j].annotation), TrimPrefix(path, <<"/">>))}
    IN IF scoped = {} THEN rss[1]
       ELSE rss[CHOOSE j \in scoped : \A m \in scoped : m <= j]

\* lookupRemoteSecretSecret, lines 237-244: the first RemoteSecret, replaced by
\* the first one from position k on whose repository annotation lists path.
RECURSIVE MatchingRemoteSecret(_, _, _)
MatchingRemoteSecret(rss, path, k) ==
    IF k > Len(rss) THEN rss[1]
    ELSE IF Contains(Values(rss[k].annotation), TrimPrefix(path, <<"/">>)) THEN rss[k]
    ELSE MatchingRemoteSecret(rss, path, k + 1)

\* Mutant of getLocalNamespaceTargetIndex: the target's Error is not looked at.
RECURSIVE getLocalNamespaceTargetIndexAnyError(_, _, _)
getLocalNamespaceTargetIndexAnyError(targets, namespace, k) ==
    IF k > Len(targets) THEN -1
    ELSE IF targets[k].ApiUrl = "" /\ targets[k].Namespace = namespace THEN k - 1
    ELSE getLocalNamespaceTargetIndexAnyError(targets, namespace, k + 1)

\* getLocalNamespaceTargetIndex, lines 262-269: the 0-based index of the first
\* target of the local cluster in namespace, or -1.
RECURSIVE getLocalNamespaceTargetIndex(_, _, _)
getLocalNamespaceTargetIndex(targets, namespace, k) ==
    IF k > Len(targets) THEN -1
    ELSE IF /\ targets[k].ApiUrl = ""
            /\ targets[k].Error = ""
            /\ targets[k].Namespace = namespace
         THEN k - 1
    ELSE getLocalNamespaceTargetIndex(targets, namespace, k + 1)

\* lookupRemoteSecretSecret, lines 227-249 (called at line 182): no Secret for
\* no RemoteSecrets; else the RemoteSecret is chosen and its local target found.
LookupRemoteSecretSecret ==
    /\ pc = "lookupRemoteSecretSecret"
    /\ IF Len(remoteSecrets) = 0
       THEN /\ out' = Outcome(<<>>, NoError)
            /\ pc' = "done"
            /\ UNCHANGED <<matchingRemoteSecret, secretName>>
       ELSE IF RepoUrlParser(matchable.RepoUrl).err
       THEN /\ out' = Outcome(<<>>, Error("parse"))
            /\ pc' = "done"
            /\ UNCHANGED <<matchingRemoteSecret, secretName>>
       ELSE LET rs == MatchingRemoteSecret(remoteSecrets,
                                           RepoUrlParser(matchable.RepoUrl).Path, 1)
                targetIndex == getLocalNamespaceTargetIndex(rs.targets,
                                                            matchable.ObjNamespace, 1)
            IN /\ matchingRemoteSecret' = rs.name
               /\ IF targetIndex < 0 \/ targetIndex >= Len(rs.targets)
                  THEN /\ out' = Outcome(<<>>, Error("missingTarget"))
                       /\ pc' = "done"
                       /\ UNCHANGED secretName
                  ELSE /\ secretName' = rs.targets[targetIndex + 1].SecretName
                       /\ pc' = "lookupRemoteSecretSecret:get"
                       /\ UNCHANGED out
    /\ UNCHANGED <<callVars, env, lookupVars, remoteSecrets, log>>

\* Mutant of FromSecret: a Secret that cannot be got counts as no credentials.
FromSecretAbsentOnErr(a, name) ==
    IF a = "err" THEN Outcome(<<>>, NoError)
    ELSE Outcome(<<[Username |-> SecretData(name).username,
                    Token |-> SecretData(name).password]>>, NoError)

\* Lines 252-257 and 183-193: the error of cl.Get wrapped and returned, else
\* the credentials from the basic-auth data of the Secret called name.
FromSecret(a, name) ==
    IF a = "err" THEN Outcome(<<>>, Error("secretGet"))
    ELSE Outcome(<<[Username |-> SecretData(name).username,
                    Token |-> SecretData(name).password]>>, NoError)

\* lookupRemoteSecretSecret, lines 251-258, and LookupCredentials, lines
\* 183-194: cl.Get of the target Secret; credentials from its basic-auth data.
SecretGet ==
    /\ pc = "lookupRemoteSecretSecret:get"
    /\ \E a \in Answers("secretGet", {"ok", "err"}) :
        /\ env' = [env EXCEPT !.secretGet = a]
        /\ out' = FromSecret(a, secretName)
    /\ log' = [log EXCEPT !.secretGet = Append(@, secretName)]
    /\ pc' = "done"
    /\ UNCHANGED <<callVars, lookupVars, rsVars>>

\* A further call of LookupCredentials with the same Matchable on the same store.
Restart ==
    /\ pc = "done"
    /\ calls < MaxCalls
    /\ calls' = calls + 1
    /\ prev' = <<out>>
    /\ pc' = "Lookup:parse"
    /\ potentialMatches' = <<>>
    /\ i' = 1
    /\ tpc' = [t \in Tasks |-> "idle"]
    /\ local' = [t \in Tasks |-> <<>>]
    /\ mutex' = 0
    /\ wg' = 0
    /\ errs' = <<>>
    /\ result' = <<>>
    /\ ret' = NoRet
    /\ remoteSecrets' = <<>>
    /\ matchingRemoteSecret' = 0
    /\ secretName' = ""
    /\ out' = NoOut
    /\ log' = EmptyLog
    /\ UNCHANGED <<matchable, spiAccessTokens, env, parsed, validation, ac>>

Next ==
    \/ LookupParse
    \/ LookupList
    \/ LoopSkip
    \/ LoopSpawn
    \/ LoopEnd
    \/ Wait
    \/ LookupReturn
    \/ \E t \in Tasks : TaskEnsure(t)
    \/ \E t \in Tasks : TaskMatches(t)
    \/ \E t \in Tasks : TaskLockErr(t)
    \/ \E t \in Tasks : TaskReadErrs(t)
    \/ \E t \in Tasks : TaskWriteErrs(t)
    \/ \E t \in Tasks : TaskLockResult(t)
    \/ \E t \in Tasks : TaskReadResult(t)
    \/ \E t \in Tasks : TaskWriteResult(t)
    \/ \E t \in Tasks : TaskUnlock(t)
    \/ \E t \in Tasks : TaskDone(t)
    \/ LookupReturned
    \/ StorageGet
    \/ LookupRemoteSecrets
    \/ LookupRemoteSecretSecret
    \/ SecretGet

\* One call of LookupCredentials.
Spec == Init /\ [][Next]_vars

\* Repeated calls of LookupCredentials on the same store.
NextTwice == Next \/ Restart

SpecTwice == InitTwice /\ [][NextTwice]_vars

\* Termination is explored for the Matchable of "h/a".
InitFair == InitWith({<<"h", "/", "a">>})

\* The steps of Lookup (84-152): the calling goroutine's and its goroutines'.
NextLookup ==
    \/ LookupParse
    \/ LookupList
    \/ LoopSkip
    \/ LoopSpawn
    \/ LoopEnd
    \/ Wait
    \/ LookupReturn
    \/ \E t \in Tasks : TaskEnsure(t)
    \/ \E t \in Tasks : TaskMatches(t)
    \/ \E t \in Tasks : TaskLockErr(t)
    \/ \E t \in Tasks : TaskReadErrs(t)
    \/ \E t \in Tasks : TaskWriteErrs(t)
    \/ \E t \in Tasks : TaskLockResult(t)
    \/ \E t \in Tasks : TaskReadResult(t)
    \/ \E t \in Tasks : TaskWriteResult(t)
    \/ \E t \in Tasks : TaskUnlock(t)
    \/ \E t \in Tasks : TaskDone(t)

\* One call of Lookup under a fair scheduler: every call to a collaborator
\* returns, and as long as some goroutine can take a step, one eventually does.
SpecFair == InitFair /\ [][NextLookup]_vars /\ WF_vars(NextLookup)

\* ------------------------------------------------ the repo URL parsers
\* Longest repo URL string given to the parsers.
MaxUrlLen == 4

\* The characters of the repo URL strings given to the parsers.
UrlChars == {"h", "1", ":", "/"}

\* A repo URL string, no Lookup and no access check going on.
InitParser ==
    /\ parsed \in [input : SeqsUpTo(UrlChars, MaxUrlLen), schemalessDone : {FALSE},
                   fromStringDone : {FALSE}, schemaless : {NoUrl}, fromString : {NoUrl},
                   prefixed : {NoUrl}]
    /\ validation = NoValidation
    /\ ac = NoAccessCheck
    /\ matchable = [RepoUrl |-> <<>>, ObjNamespace |-> LocalNs]
    /\ spiAccessTokens = <<>>
    /\ env = EnvInit
    /\ prev = <<>>
    /\ calls = 1
    /\ CallInit

\* RepoUrlFromSchemalessString is called on the input.
ParseSchemaless ==
    /\ ~parsed.schemalessDone
    /\ parsed' = [parsed EXCEPT !.schemalessDone = TRUE,
                                !.schemaless = RepoUrlFromSchemalessString(parsed.input)]
    /\ UNCHANGED <<matchable, spiAccessTokens, env, prev, calls, validation, ac,
                   pc, lookupVars, rsVars, out, log>>

\* RepoUrlFromString is called on the input, and on "https://" followed by
\* the input.
ParseFromString ==
    /\ ~parsed.fromStringDone
    /\ parsed' = [parsed EXCEPT
                    !.fromStringDone = TRUE,
                    !.fromString = RepoUrlFromString(parsed.input),
                    !.prefixed = RepoUrlFromString(<<"h", "s", ":", "/", "/">>
                                                     \o parsed.input)]
    /\ UNCHANGED <<matchable, spiAccessTokens, env, prev, calls, validation, ac,
                   pc, lookupVars, rsVars, out, log>>

NextParser == ParseSchemaless \/ ParseFromString

\* The two repo URL parsers on one string.
SpecParser == InitParser /\ [][NextParser]_vars

\* ------------------------------------------------------ Gitlab.Validate
\* Most required permissions, and most additional scopes, of one Validate call.
MaxRequired == 2
MaxScopes == 2

\* api.Permission: its Area, and what Type.IsWrite() answers for its Type.
\* "webhooks" stands for every area the switch does not name.
Permissions ==
    {[Area |-> "repository", isWrite |-> TRUE],
     [Area |-> "repositoryMetadata", isWrite |-> FALSE],
     [Area |-> "registry", isWrite |-> TRUE],
     [Area |-> "user", isWrite |-> FALSE],
     [Area |-> "user", isWrite |-> TRUE],
     [Area |-> "webhooks", isWrite |-> FALSE]}

\* An additional scope: its string, and what IsValidScope answers for it.
AdditionalScopes ==
    {[scope |-> "api", isValid |-> TRUE], [scope |-> "bogus", isValid |-> FALSE]}

\* Mutant of RequiredErrors: the user area is refused whatever the type.
RequiredErrorsUserAlways(p) ==
    CASE p.Area \in {"repository", "repositoryMetadata", "registry"} -> <<>>
      [] p.Area = "user" -> <<[kind |-> "unsupportedUserWritePermission", of |-> ""]>>
      [] OTHER -> <<[kind |-> "unsupportedArea", of |-> p.Area]>>

\* The switch on p.Area (lines 317-329): what one required permission appends
\* to ret.ScopeValidation.
RequiredErrors(p) ==
    CASE p.Area \in {"repository", "repositoryMetadata", "registry"} -> <<>>
      [] p.Area = "user" ->
            IF p.isWrite
            THEN <<[kind |-> "unsupportedUserWritePermission", of |-> ""]>>
            ELSE <<>>
      [] OTHER -> <<[kind |-> "unsupportedArea", of |-> p.Area]>>

\* Lines 332-336: what one additional scope appends to ret.ScopeValidation.
AdditionalErrors(sc) ==
    IF ~sc.isValid THEN <<[kind |-> "unsupportedScope", of |-> sc.scope]>> ELSE <<>>

\* A Validate call with its permissions, no Lookup and no access check going on.
InitValidate ==
    /\ validation \in [pc : {"required"},
                       Required : SeqsUpTo(Permissions, MaxRequired),
                       AdditionalScopes : SeqsUpTo(AdditionalScopes, MaxScopes),
                       ret : {<<>>}, err : {NoError}]
    /\ parsed = NoParsed
    /\ ac = NoAccessCheck
    /\ matchable = [RepoUrl |-> <<>>, ObjNamespace |-> LocalNs]
    /\ spiAccessTokens = <<>>
    /\ env = EnvInit
    /\ prev = <<>>
    /\ calls = 1
    /\ CallInit

\* The first loop (316-330), i being the permission it is at.
ValidateRequired ==
    /\ validation.pc = "required"
    /\ i <= Len(validation.Required)
    /\ i' = i + 1
    /\ validation' = [validation EXCEPT
                        !.ret = @ \o RequiredErrors(validation.Required[i])]
    /\ UNCHANGED <<matchable, spiAccessTokens, env, prev, calls, parsed, ac, pc,
                   potentialMatches, taskVars, ret, rsVars, out, log>>

\* The first loop is over: on to the additional scopes.
ValidateRequiredEnd ==
    /\ validation.pc = "required"
    /\ i > Len(validation.Required)
    /\ i' = 1
    /\ validation' = [validation EXCEPT !.pc = "additional"]
    /\ UNCHANGED <<matchable, spiAccessTokens, env, prev, calls, parsed, ac, pc,
                   potentialMatches, taskVars, ret, rsVars, out, log>>

\* The second loop (332-336).
ValidateAdditional ==
    /\ validation.pc = "additional"
    /\ i <= Len(validation.AdditionalScopes)
    /\ i' = i + 1
    /\ validation' = [validation EXCEPT
                        !.ret = @ \o AdditionalErrors(validation.AdditionalScopes[i])]
    /\ UNCHANGED <<matchable, spiAccessTokens, env, prev, calls, parsed, ac, pc,
                   potentialMatches, taskVars, ret, rsVars, out, log>>

\* return ret, nil (338).
ValidateReturn ==
    /\ validation.pc = "additional"
    /\ i > Len(validation.AdditionalScopes)
    /\ validation' = [validation EXCEPT !.pc = "returned", !.err = NoError]
    /\ UNCHANGED <<matchable, spiAccessTokens, env, prev, calls, parsed, ac, pc,
                   lookupVars, rsVars, out, log>>

NextValidate ==
    ValidateRequired \/ ValidateRequiredEnd \/ ValidateAdditional \/ ValidateReturn

\* One Gitlab.Validate call.
SpecValidate == InitValidate /\ [][NextValidate]_vars

\* ------------------------------------------- Gitlab.CheckRepositoryAccess
\* Repository URLs of the SPIAccessCheck: "h/a"; ":a", which url.Parse
\* refuses; and "h:a", which only the RepoUrlParser refuses.
AccessCheckRepoUrls == { <<"h", "/", "a">>, <<":", "a">>, <<"h", ":", "a">> }

\* What the unauthenticated GET comes to: no request (url.Parse in
\* http.NewRequestWithContext failed), an error of httpClient.Do, or a status code.
PublicAnswers == {"doErr", "200", "404", "500"}

\* What Projects.GetProject returns: an error without a response, an error
\* with the response of a refused request, no error with a success code other
\* than 200, or no error, 200 and the project with its visibility.
ProjectAnswers ==
    {[err |-> TRUE, StatusCode |-> "nil", Visibility |-> ""],
     [err |-> TRUE, StatusCode |-> "404", Visibility |-> ""],
     [err |-> TRUE, StatusCode |-> "500", Visibility |-> ""],
     [err |-> FALSE, StatusCode |-> "204", Visibility |-> ""],
     [err |-> FALSE, StatusCode |-> "200", Visibility |-> "private"],
     [err |-> FALSE, StatusCode |-> "200", Visibility |-> "internal"],
     [err |-> FALSE, StatusCode |-> "200", Visibility |-> "public"]}

\* err.Error(): every error at hand carries a message; nil has none.
ErrorString(e) == IF e = NoError THEN "" ELSE e.kind

\* The status both functions start from (207-211, 228-232).
UnknownStatus ==
    [Accessible |-> FALSE, Accessibility |-> "Unknown", ErrorReason |-> "",
     ErrorMessage |-> ""]

\* What an access-check step hands on: the next position, the status and the
\* Go error.
Step(next, status, err) == [pc |-> next, status |-> status, err |-> err]

\* Mutant of preserveError: the reason is kept, the message is not.
preserveErrorNoMessage(errReason, err) ==
    Step("returned", [UnknownStatus EXCEPT !.ErrorReason = errReason], NoError)

\* preserveError (233-237): reason and message on the status, nil error.
preserveError(errReason, err) ==
    Step("returned",
         [UnknownStatus EXCEPT !.ErrorReason = errReason,
                               !.ErrorMessage = ErrorString(err)],
         NoError)

\* Mutant of AfterPublicCheck: a 200 is recorded and the private check follows.
AfterPublicCheckNoReturn(a) ==
    CASE a = "newRequestErr" -> Step("returned", NoStatus, Error("newRequest"))
      [] a = "doErr" -> Step("returned", NoStatus, Error("do"))
      [] a = "200" ->
            Step("parseOwnerAndProjectFromUrl",
                 [UnknownStatus EXCEPT !.Accessible = TRUE, !.Accessibility = "Public"],
                 NoError)
      [] OTHER -> Step("parseOwnerAndProjectFromUrl", UnknownStatus, NoError)

\* checkPublicRepoAccess and what CheckRepositoryAccess does with it
\* (213-224, 280-307): an error for a request that could not be made or
\* done, the public status for a 200, the private check otherwise.
AfterPublicCheck(a) ==
    CASE a = "newRequestErr" -> Step("returned", NoStatus, Error("newRequest"))
      [] a = "doErr" -> Step("returned", NoStatus, Error("do"))
      [] a = "200" ->
            Step("returned",
                 [UnknownStatus EXCEPT !.Accessible = TRUE, !.Accessibility = "Public"],
                 NoError)
      [] OTHER -> Step("parseOwnerAndProjectFromUrl", UnknownStatus, NoError)

\* Lines 239-242.
AfterParseOwner(a) ==
    IF a = "err" THEN preserveError("BadURL", Error("parseOwnerAndProjectFromUrl"))
    ELSE Step("LookupCredentials", UnknownStatus, NoError)

\* Mutant of AfterCredentials: the credentials are not tested for nil.
AfterCredentialsNoNilCheck(o) ==
    IF o.err # NoError THEN preserveError("TokenLookupFailed", o.err)
    ELSE Step("CreateAuthenticatedClient", UnknownStatus, NoError)

\* Lines 244-250: the outcome o of LookupCredentials.
AfterCredentials(o) ==
    IF o.err # NoError THEN preserveError("TokenLookupFailed", o.err)
    ELSE IF o.creds = <<>> THEN Step("returned", UnknownStatus, NoError)
    ELSE Step("CreateAuthenticatedClient", UnknownStatus, NoError)

\* Lines 252-255.
AfterCreateClient(a) ==
    IF a = "err" THEN preserveError("UnknownError", Error("CreateAuthenticatedClient"))
    ELSE Step("GetProject", UnknownStatus, NoError)

\* Mutant of ProjectFailure: a 404 is an unknown error like the others.
ProjectFailureNotFoundUnknown(a) ==
    IF a.err THEN preserveError("UnknownError", Error("GetProject"))
    ELSE preserveError("UnknownError", Error("unexpectedStatusCode"))

\* Lines 258-267, for a project lookup that failed or did not answer 200.
ProjectFailure(a) ==
    IF a.err
    THEN IF a.StatusCode = "404"
         THEN preserveError("RepoNotFound", Error("GetProject"))
         ELSE preserveError("UnknownError", Error("GetProject"))
    ELSE preserveError("UnknownError", Error("unexpectedStatusCode"))

\* Mutant of ProjectAccessibility: internal projects are not counted private.
ProjectAccessibilityPrivateOnly(visibility) ==
    IF visibility = "private" THEN "Private" ELSE "Unknown"

\* Lines 274-276.
ProjectAccessibility(visibility) ==
    IF visibility = "private" \/ visibility = "internal" THEN "Private" ELSE "Unknown"

\* Mutant of AfterGetProject: Accessible is set before the answer is examined.
AfterGetProjectAccessibleFirst(a) ==
    IF a.err \/ (a.StatusCode # "nil" /\ a.StatusCode # "200")
    THEN [ProjectFailure(a) EXCEPT !.status.Accessible = TRUE]
    ELSE Step("returned",
              [UnknownStatus EXCEPT !.Accessible = TRUE,
                                    !.Accessibility = ProjectAccessibility(a.Visibility)],
              NoError)

\* Lines 257-277.
AfterGetProject(a) ==
    IF a.err \/ (a.StatusCode # "nil" /\ a.StatusCode # "200")
    THEN ProjectFailure(a)
    ELSE Step("returned",
              [UnknownStatus EXCEPT !.Accessible = TRUE,
                                    !.Accessibility = ProjectAccessibility(a.Visibility)],
              NoError)

\* A CheckRepositoryAccess call: LookupCredentials has not been called yet.
InitAccessCheck ==
    /\ ac = [pc |-> "checkPublicRepoAccess", answers |-> NoAnswers,
             status |-> NoStatus, err |-> NoError]
    /\ parsed = NoParsed
    /\ validation = NoValidation
    /\ matchable \in [RepoUrl : AccessCheckRepoUrls, ObjNamespace : {LocalNs}]
    /\ spiAccessTokens \in SeqsUpTo(TokenKinds, MaxTokens)
    /\ env = EnvInit
    /\ prev = <<>>
    /\ calls = 1
    /\ pc = "CheckRepositoryAccess"
    /\ potentialMatches = <<>>
    /\ i = 1
    /\ tpc = [t \in Tasks |-> "idle"]
    /\ local = [t \in Tasks |-> <<>>]
    /\ mutex = 0
    /\ wg = 0
    /\ errs = <<>>
    /\ result = <<>>
    /\ ret = NoRet
    /\ remoteSecrets = <<>>
    /\ matchingRemoteSecret = 0
    /\ secretName = ""
    /\ out = NoOut
    /\ log = EmptyLog

\* What an access-check step leaves alone.
acFrame == <<matchable, spiAccessTokens, prev, calls, parsed, validation, env,
             lookupVars, rsVars, out, log>>

\* The access check takes the step r after observing the answer a of who.
Took(who, a, r) ==
    ac' = [ac EXCEPT !.pc = r.pc, !.status = r.status, !.err = r.err,
                     !.answers[who] = a]

CheckPublicRepoAccess ==
    /\ ac.pc = "checkPublicRepoAccess"
    /\ \E a \in (IF UrlParse(matchable.RepoUrl).err THEN {"newRequestErr"}
                 ELSE PublicAnswers) :
            Took("public", a, AfterPublicCheck(a))
    /\ UNCHANGED <<pc, acFrame>>

ParseOwnerAndProjectFromUrl ==
    /\ ac.pc = "parseOwnerAndProjectFromUrl"
    /\ \E a \in {"ok", "err"} :
        /\ Took("owner", a, AfterParseOwner(a))
        /\ pc' = IF a = "ok" THEN "Lookup:parse" ELSE pc
    /\ UNCHANGED acFrame

CredentialsReturned ==
    /\ ac.pc = "LookupCredentials"
    /\ pc = "done"
    /\ LET r == AfterCredentials(out)
       IN ac' = [ac EXCEPT !.pc = r.pc, !.status = r.status, !.err = r.err]
    /\ UNCHANGED <<pc, acFrame>>

CreateAuthenticatedClient ==
    /\ ac.pc = "CreateAuthenticatedClient"
    /\ \E a \in {"ok", "err"} : Took("client", a, AfterCreateClient(a))
    /\ UNCHANGED <<pc, acFrame>>

GetProject ==
    /\ ac.pc = "GetProject"
    /\ \E a \in ProjectAnswers : Took("project", a, AfterGetProject(a))
    /\ UNCHANGED <<pc, acFrame>>

NextAccessCheck ==
    \/ Next
    \/ CheckPublicRepoAccess
    \/ ParseOwnerAndProjectFromUrl
    \/ CredentialsReturned
    \/ CreateAuthenticatedClient
    \/ GetProject

\* One CheckRepositoryAccess call, LookupCredentials within it.
SpecAccessCheck == InitAccessCheck /\ [][NextAccessCheck]_vars

\* ------------------------------------------------------------ properties
\* A Ready candidate whose evaluation fails: Ensure fails, or Ensure succeeds
\* and the filter fails.
Fails(tok) ==
    /\ tok.phase = "Ready"
    /\ (tok.ensure = "err" \/ (tok.ensure = "ok" /\ tok.matches = "err"))

\* A Ready candidate whose Ensure succeeds and whose filter answers true.
Matching(tok) == tok.phase = "Ready" /\ tok.ensure = "ok" /\ tok.matches = "true"

FailingCandidates == {t \in DOMAIN potentialMatches : Fails(potentialMatches[t])}
MatchingCandidates == {t \in DOMAIN potentialMatches : Matching(potentialMatches[t])}

\* seq holds every element of S exactly once, and nothing else.
ExactlyOnce(seq, S) ==
    /\ Len(seq) = Cardinality(S)
    /\ \A x \in S : \E k \in 1..Len(seq) : seq[k] = x

\* C1: when at least one Ready candidate's evaluation fails, Lookup returns a
\* non-nil (aggregated) error and no tokens, also when other candidates matched.
C1_AnyFailureFailsLookup ==
    (ret.done /\ FailingCandidates # {})
        => (ret.err.kind = "aggregate" /\ ret.err # NoError /\ ret.tokens = <<>>)

\* C1 witness: Lookup returned after one candidate failed and another was
\* appended to result.
C1_Witness ==
    /\ ret.done
    /\ FailingCandidates # {}
    /\ result # <<>>
    /\ ret.tokens = <<>>

\* C2: when Lookup inspects errs after the barrier, errs holds exactly one
\* error per Ready candidate whose evaluation failed.
C2_NoErrorLostOrDuplicated ==
    pc = "Lookup:return" => ExactlyOnce(errs, FailingCandidates)

\* C2 witness: two candidates failed and Lookup is about to inspect errs.
C2_Witness == pc = "Lookup:return" /\ Len(errs) >= 2

\* C3: a candidate that is not Ready gets no goroutine, no Ensure call and no
\* filter call, contributes no error, and is never part of Lookup's result.
C3_NotReadySkipped ==
    \A t \in Tasks :
        spiAccessTokens[t].phase # "Ready" =>
            /\ tpc[t] = "idle"
            /\ t \notin log.ensure
            /\ t \notin log.filter
            /\ ~Contains(errs, t)
            /\ ~Contains(result, t)
            /\ ~Contains(ret.tokens, t)
            /\ ~Contains(ret.err.aggregate, t)

\* C3 witness: Lookup returned tokens after its loop passed a candidate that
\* is not Ready.
C3_Witness ==
    /\ ret.done
    /\ ret.tokens # <<>>
    /\ \E t \in DOMAIN potentialMatches : potentialMatches[t].phase # "Ready"

\* C4: when no evaluation fails, Lookup returns exactly the listed candidates
\* that are Ready, whose Ensure succeeded and whose filter answered true, each
\* once; it never returns a candidate outside that set.
C4_ResultIsExactlyTheMatches ==
    ret.done =>
        /\ \A k \in 1..Len(ret.tokens) : ret.tokens[k] \in MatchingCandidates
        /\ (ret.err = NoError => ExactlyOnce(ret.tokens, MatchingCandidates))

\* C4 witness: Lookup returned two tokens, appended against the listing order.
C4_Witness ==
    /\ ret.done
    /\ ret.err = NoError
    /\ Len(ret.tokens) = 2
    /\ ret.tokens[1] > ret.tokens[2]

\* C5: remote secrets are listed, and a Secret is got, only after Lookup
\* succeeded with no token; with a token no List of remote secrets and no
\* Secret Get is issued.
C5_RemoteSecretsOnlyWithoutTokens ==
    /\ (log.rsList > 0 \/ log.secretGet # <<>>
          \/ pc \in {"lookupRemoteSecrets", "lookupRemoteSecretSecret",
                     "lookupRemoteSecretSecret:get"})
        => (ret.done /\ ret.err = NoError /\ ret.tokens = <<>>)
    /\ (ret.done /\ Len(ret.tokens) > 0) => (log.rsList = 0 /\ log.secretGet = <<>>)

\* C5 witness: LookupCredentials returned with credentials of a token, no
\* remote secret consulted.
C5_Witness ==
    /\ out.done
    /\ out.creds # <<>>
    /\ Len(ret.tokens) > 0
    /\ log.rsList = 0

\* The listed RemoteSecrets the filter accepts.
PassingRemoteSecrets ==
    {k \in DOMAIN env.remoteSecretList :
        env.filterNil = "nil" \/ env.remoteSecretList[k].filter}

\* C6: with no matching token and no RemoteSecret that passes the filter,
\* LookupCredentials returns no credentials and no error, and the token
\* storage is not asked.
C6_NothingFoundIsAbsent ==
    (/\ out.done
     /\ ret.err = NoError
     /\ ret.tokens = <<>>
     /\ env.rsList = "ok"
     /\ PassingRemoteSecrets = {})
        => (out.creds = <<>> /\ out.err = NoError /\ log.storageGet = <<>>)

\* C6 witness: RemoteSecrets were listed, none passed the filter, and
\* LookupCredentials returned.
C6_Witness ==
    /\ out.done
    /\ ret.err = NoError
    /\ ret.tokens = <<>>
    /\ env.rsList = "ok"
    /\ Len(env.remoteSecretList) > 0
    /\ PassingRemoteSecrets = {}

\* The listed tokens that match, whether or not the call has listed them yet.
MatchingTokens == {t \in Tasks : Matching(spiAccessTokens[t])}

\* This call returned what the previous call on the same store returned:
\* the same credentials, the same kind of error.
SameOutcome == out.creds = prev[1].creds /\ out.err.kind = prev[1].err.kind

\* C7 as stated: on the same Matchable, store and token storage, every
\* execution of LookupCredentials returns the same credentials.
C7_SameCredentialsEveryExecution == (out.done /\ prev # <<>>) => SameOutcome

\* The token storage, as far as it was asked, has the same answer for every
\* matching token.
SameTokenData ==
    \A t1, t2 \in MatchingTokens :
        env.storage[t1] = "?" \/ env.storage[t2] = "?" \/ env.storage[t1] = env.storage[t2]

\* C7 amended: LookupCredentials returns at most one credential; credentials
\* that come from a token are the token data of one of the matching tokens;
\* and two executions on the same store return the same credentials when the
\* matching tokens hold the same token data (at most one matching token
\* included).
C7_SameCredentialsForSameTokenData ==
    /\ Len(out.creds) <= 1
    /\ (out.done /\ out.creds # <<>> /\ Len(ret.tokens) > 0)
        => \E t \in MatchingTokens :
              /\ env.storage[t] \notin {"?", "err", "nil"}
              /\ out.creds[1] = [Username |-> TokenData(env.storage[t]).Username,
                                 Token |-> TokenData(env.storage[t]).AccessToken]
    /\ (out.done /\ prev # <<>> /\ SameTokenData) => SameOutcome

\* C7 witness: two matching tokens with the same token data, each selected by
\* one of the calls, and the second call returned credentials.
C7_Witness ==
    /\ out.done
    /\ prev # <<>>
    /\ out.creds # <<>>
    /\ Cardinality(MatchingTokens) = 2
    /\ \A t \in MatchingTokens : env.storage[t] = "d1"

\* C8: when a token matched and the token storage has no data for tokens[0],
\* LookupCredentials fails with the "token data not found" error: no
\* credentials, no remote secret consulted, no other token asked for.
C8_MissingTokenDataIsAnError ==
    (/\ out.done
     /\ ret.err = NoError
     /\ Len(ret.tokens) > 0
     /\ env.storage[ret.tokens[1]] = "nil")
        => /\ out.err = Error("accessTokenNotFound")
           /\ out.creds = <<>>
           /\ log.rsList = 0
           /\ log.secretGet = <<>>
           /\ log.storageGet = <<ret.tokens[1]>>

\* C8 witness: two tokens matched, the storage had no data for the first of
\* the result, and LookupCredentials returned.
C8_Witness ==
    /\ out.done
    /\ Len(ret.tokens) = 2
    /\ env.storage[ret.tokens[1]] = "nil"

\* The filtered RemoteSecrets whose repository annotation lists the request
\* path without its leading '/'.
Scoped ==
    {k \in DOMAIN remoteSecrets :
        \E j \in DOMAIN Values(remoteSecrets[k].annotation) :
            Values(remoteSecrets[k].annotation)[j]
                = TrimPrefix(RepoUrlParser(matchable.RepoUrl).Path, <<"/">>)}

\* C9: the RemoteSecret chosen is the first filtered one whose repository
\* annotation lists the request path without its leading '/', wherever it is
\* in the listing; the first filtered one only when no annotation lists it.
C9_ScopedRemoteSecretPreferred ==
    matchingRemoteSecret # 0 =>
        IF Scoped = {} THEN matchingRemoteSecret = remoteSecrets[1].name
        ELSE \E k \in Scoped :
                /\ \A j \in Scoped : k <= j
                /\ matchingRemoteSecret = remoteSecrets[k].name

\* C9 witness: the chosen RemoteSecret is not the first of the filtered ones.
C9_Witness ==
    /\ matchingRemoteSecret # 0
    /\ matchingRemoteSecret # remoteSecrets[1].name

\* The filtered RemoteSecret that was chosen.
Chosen == CHOOSE rs \in {remoteSecrets[k] : k \in DOMAIN remoteSecrets} :
              rs.name = matchingRemoteSecret

\* target is in the local cluster, delivered, and in the caller's namespace.
IsLocalTarget(target) ==
    target.ApiUrl = "" /\ target.Error = "" /\ target.Namespace = matchable.ObjNamespace

\* C10: when the chosen RemoteSecret has no local-namespace target,
\* LookupCredentials fails with the "missing target" error, returns no
\* credentials and issues no Secret Get.
C10_MissingTargetIsAnError ==
    (/\ out.done
     /\ matchingRemoteSecret # 0
     /\ \A k \in DOMAIN Chosen.targets : ~IsLocalTarget(Chosen.targets[k]))
        => /\ out.err = Error("missingTarget")
           /\ out.creds = <<>>
           /\ log.secretGet = <<>>

\* C10 witness: the chosen RemoteSecret has targets, all remote, failed or of
\* another namespace, and LookupCredentials returned.
C10_Witness ==
    /\ out.done
    /\ matchingRemoteSecret # 0
    /\ Len(Chosen.targets) > 0
    /\ \A k \in DOMAIN Chosen.targets : ~IsLocalTarget(Chosen.targets[k])

\* The goroutines Lookup has started and that have not yet run wg.Done().
Running == {t \in Tasks : tpc[t] \notin {"idle", "exited"}}

\* C17: Lookup reads errs and result, and returns, only after every goroutine
\* it started has completed: past wg.Wait() no goroutine is running, every
\* Ready candidate's goroutine has exited, and nothing can append any more.
C17_BarrierBeforeInspection ==
    (pc \notin {"Lookup:parse", "Lookup:list", "Lookup:loop", "Lookup:wait"})
        => /\ Running = {}
           /\ mutex = 0
           /\ wg = 0
           /\ \A t \in DOMAIN potentialMatches :
                 tpc[t] = (IF potentialMatches[t].phase = "Ready" THEN "exited" ELSE "idle")

\* C17 witness: Lookup is about to inspect errs after two goroutines exited.
C17_Witness ==
    /\ pc = "Lookup:return"
    /\ Cardinality({t \in Tasks : tpc[t] = "exited"}) >= 2

\* The positions between mutex.Lock() and the deferred mutex.Unlock().
InCriticalSectionPcs == {"readErrs", "writeErrs", "readResult", "writeResult", "unlock"}

\* The goroutines at those positions.
InCriticalSection == {t \in Tasks : tpc[t] \in InCriticalSectionPcs}

\* C18: at most one goroutine at a time is inside a section that appends to
\* errs or result, it holds the mutex while it is there, and a goroutine past
\* its deferred Unlock no longer holds the mutex.
C18_AppendsUnderMutex ==
    /\ Cardinality(InCriticalSection) <= 1
    /\ \A t \in InCriticalSection : mutex = t
    /\ \A t \in Tasks : tpc[t] \notin InCriticalSectionPcs => mutex # t

\* C18 witness: one goroutine is about to write result under the mutex while
\* another one waits for the lock.
C18_Witness ==
    \E t, u \in Tasks :
        /\ tpc[t] = "writeResult"
        /\ mutex = t
        /\ tpc[u] \in {"lockErr", "lockResult"}

\* C19: TokenFilter.Matches is evaluated for a candidate only after
\* MetadataCache.Ensure succeeded for that candidate; a candidate whose
\* Ensure fails gets no filter call and is never added to the result.
C19_FilterOnlyAfterEnsure ==
    \A t \in DOMAIN potentialMatches :
        /\ (t \in log.filter \/ tpc[t] = "matches")
              => (t \in log.ensure /\ potentialMatches[t].ensure = "ok")
        /\ potentialMatches[t].ensure = "err"
              => /\ t \notin log.filter
                 /\ tpc[t] \notin {"matches", "lockResult", "readResult", "writeResult"}
                 /\ ~Contains(result, t)
                 /\ ~Contains(ret.tokens, t)

\* C19 witness: Ensure failed for one Ready candidate, whose goroutine has
\* exited, and the filter was evaluated for another one.
C19_Witness ==
    \E t, u \in DOMAIN potentialMatches :
        /\ potentialMatches[t].phase = "Ready"
        /\ potentialMatches[t].ensure = "err"
        /\ tpc[t] = "exited"
        /\ u \in log.filter

\* C20: when Lookup fails, LookupCredentials goes nowhere but to its return:
\* it returns Lookup's error with no credentials, and neither the token
\* storage nor the remote secrets nor a Secret are asked for.
C20_LookupErrorPropagated ==
    (ret.done /\ ret.err # NoError)
        => /\ pc \in {"LookupCredentials:lookupReturned", "done"}
           /\ log.storageGet = <<>>
           /\ log.rsList = 0
           /\ log.secretGet = <<>>
           /\ (pc = "done" => (out.done /\ out.err = ret.err /\ out.creds = <<>>))

\* C20 witness: LookupCredentials returned the aggregated error of two
\* failed candidates.
C20_Witness ==
    /\ out.done
    /\ out.err.kind = "aggregate"
    /\ Len(out.err.aggregate) = 2

\* s contains "://".
HasSchemeSeparator(s) ==
    \E k \in 1..(Len(s) - 2) : s[k] = ":" /\ s[k + 1] = "/" /\ s[k + 2] = "/"

\* C15: for a repo URL string without "://", RepoUrlFromSchemalessString
\* yields what RepoUrlFromString yields for "https://" followed by the string
\* (host, path or error); for a string with "://", what RepoUrlFromString
\* yields for the string itself.
C15_SchemalessIsHttpsPrefixed ==
    (parsed.schemalessDone /\ parsed.fromStringDone)
        => parsed.schemaless = (IF HasSchemeSeparator(parsed.input)
                                THEN parsed.fromString
                                ELSE parsed.prefixed)

\* C15 witness: a string with a ':' but without "://" got its host and path
\* from the prepended scheme, unlike what RepoUrlFromString makes of it.
C15_Witness ==
    /\ parsed.schemalessDone
    /\ parsed.fromStringDone
    /\ ~HasSchemeSeparator(parsed.input)
    /\ Contains(parsed.input, ":")
    /\ ~parsed.schemaless.err
    /\ parsed.schemaless.Path # <<>>
    /\ parsed.schemaless # parsed.fromString

\* How many entries of the sequence q satisfy the test.
Count(q, Test(_)) == Cardinality({k \in DOMAIN q : Test(q[k])})

\* The areas whose permissions Validate accepts or judges by their type.
KnownAreas == {"repository", "repositoryMetadata", "registry", "user"}

\* C16: Validate records one "unsupported area" error for each required
\* permission whose area is not repository, repository-metadata, registry or
\* user, one "unsupported user write permission" error for each user-area
\* permission of write type, one "unsupported scope" error for each additional
\* scope that is not valid, no other error, and returns a nil error.
C16_OneErrorPerOffendingItem ==
    validation.pc = "returned" =>
        LET req == validation.Required
            add == validation.AdditionalScopes
            sv == validation.ret
            AreaErr(a, e) == e.kind = "unsupportedArea" /\ e.of = a
            ScopeErr(n, e) == e.kind = "unsupportedScope" /\ e.of = n
            IsUserWriteErr(e) == e.kind = "unsupportedUserWritePermission"
            IsUserWrite(p) == p.Area = "user" /\ p.isWrite
            OffendingArea(p) == p.Area \notin KnownAreas
            OffendingScope(sc) == ~sc.isValid
        IN /\ validation.err = NoError
           /\ \A a \in {p.Area : p \in Permissions} :
                LET IsErr(e) == AreaErr(a, e)
                    IsOff(p) == p.Area = a /\ OffendingArea(p)
                IN Count(sv, IsErr) = Count(req, IsOff)
           /\ Count(sv, IsUserWriteErr) = Count(req, IsUserWrite)
           /\ \A n \in {sc.scope : sc \in AdditionalScopes} :
                LET IsErr(e) == ScopeErr(n, e)
                    IsOff(sc) == sc.scope = n /\ OffendingScope(sc)
                IN Count(sv, IsErr) = Count(add, IsOff)
           /\ Len(sv) = Count(req, OffendingArea) + Count(req, IsUserWrite)
                            + Count(add, OffendingScope)

\* C16 witness: a call with a user-read permission and a valid scope, which
\* are not reported, next to a user-write permission and an invalid scope,
\* which are.
C16_Witness ==
    /\ validation.pc = "returned"
    /\ \E k \in DOMAIN validation.Required :
            validation.Required[k] = [Area |-> "user", isWrite |-> FALSE]
    /\ \E k \in DOMAIN validation.AdditionalScopes : validation.AdditionalScopes[k].isValid
    /\ validation.ret = <<[kind |-> "unsupportedUserWritePermission", of |-> ""],
                          [kind |-> "unsupportedScope", of |-> "bogus"]>>

\* The private check has been entered: its first call has been made.
PrivateCheckEntered == ac.answers.owner # "?"

\* No call of the private check has been made: no owner and project parsed,
\* no LookupCredentials, no authenticated client built, no project queried.
NoPrivateCheckCall ==
    /\ ac.answers.owner = "?"
    /\ ac.answers.client = "?"
    /\ ac.answers.project = NoProject
    /\ pc = "CheckRepositoryAccess"
    /\ ~out.done
    /\ log = EmptyLog
    /\ env = EnvInit

\* The project lookup failed or answered something else than 200.
ProjectLookupFailed ==
    /\ ac.answers.project # NoProject
    /\ ac.answers.project.err \/ ac.answers.project.StatusCode # "200"

\* A step of the private check failed.
PrivateCheckFailed ==
    \/ ac.answers.owner = "err"
    \/ ac.pc = "returned" /\ ac.answers.owner = "ok" /\ out.err # NoError
    \/ ac.answers.client = "err"
    \/ ProjectLookupFailed

\* C11: when the unauthenticated GET answers 200, CheckRepositoryAccess
\* returns Accessible=true and Accessibility=Public, and nothing of the
\* private check happens: no owner and project parsing, no LookupCredentials
\* call, no authenticated request.
C11_PublicRepoSkipsPrivateCheck ==
    ac.answers.public = "200" =>
        /\ ac.pc = "returned"
        /\ ac.err = NoError
        /\ ac.status.Accessible
        /\ ac.status.Accessibility = "Public"
        /\ NoPrivateCheckCall

\* C11 witness: the GET answered 200 and the call has returned.
C11_Witness == ac.pc = "returned" /\ ac.answers.public = "200"

\* C12: every failure of the private check returns a status with a reason
\* and a message, and a nil error; CheckRepositoryAccess returns an error
\* only when the unauthenticated request could not be constructed or performed.
C12_FailuresAreStatuses ==
    ac.pc = "returned" =>
        /\ PrivateCheckFailed =>
                /\ ac.err = NoError
                /\ ac.status.ErrorReason # ""
                /\ ac.status.ErrorMessage # ""
        /\ ac.err # NoError =>
                /\ ac.answers.public \in {"newRequestErr", "doErr"}
                /\ NoPrivateCheckCall

\* C12 witness: the credentials lookup failed with the aggregate of its
\* candidates' errors, and the status says so.
C12_Witness ==
    /\ ac.pc = "returned"
    /\ out.err.kind = "aggregate"
    /\ ac.status.ErrorReason = "TokenLookupFailed"

\* C13: a project lookup answering 404 gives ErrorReason=RepoNotFound and
\* Accessible=false; any other failing or non-200 project lookup gives
\* ErrorReason=UnknownError and Accessible=false.
C13_ProjectLookupFailureReason ==
    ProjectLookupFailed =>
        /\ ac.pc = "returned"
        /\ ~ac.status.Accessible
        /\ ac.status.ErrorReason =
                (IF ac.answers.project.StatusCode = "404" THEN "RepoNotFound"
                 ELSE "UnknownError")

\* C13 witness: credentials were found, the client was built and the
\* project lookup answered 404.
C13_Witness ==
    /\ ac.pc = "returned"
    /\ out.creds # <<>>
    /\ ac.answers.project # NoProject
    /\ ac.answers.project.StatusCode = "404"

\* C14: with credentials and a project lookup answering 200 the status has
\* Accessible=true, and Accessibility=Private exactly when the project's
\* visibility is private or internal, Unknown otherwise; the private check
\* never says Public.
C14_VisibilityDecidesAccessibility ==
    /\ (ac.answers.project # NoProject /\ ~ProjectLookupFailed) =>
            /\ ac.pc = "returned"
            /\ out.creds # <<>>
            /\ ac.status.Accessible
            /\ ac.status.ErrorReason = ""
            /\ ac.status.Accessibility =
                    (IF ac.answers.project.Visibility \in {"private", "internal"}
                     THEN "Private" ELSE "Unknown")
    /\ PrivateCheckEntered => ac.status.Accessibility # "Public"

\* C14 witness: the project lookup answered 200 for an internal project.
C14_Witness ==
    /\ ac.pc = "returned"
    /\ ac.answers.project # NoProject
    /\ ac.answers.project.StatusCode = "200"
    /\ ac.answers.project.Visibility = "internal"

\* No token matched and at least one listed RemoteSecret passed the filter.
OnlyRemoteSecretsMatched ==
    /\ out.done
    /\ ret.err = NoError
    /\ ret.tokens = <<>>
    /\ env.rsList = "ok"
    /\ PassingRemoteSecrets # {}

\* The chosen RemoteSecret has a target in the caller's namespace of the
\* local cluster.
HasLocalTarget == \E k \in DOMAIN Chosen.targets : IsLocalTarget(Chosen.targets[k])

\* The first such target.
LocalTarget ==
    Chosen.targets[CHOOSE k \in DOMAIN Chosen.targets :
                        /\ IsLocalTarget(Chosen.targets[k])
                        /\ \A j \in 1..(k - 1) : ~IsLocalTarget(Chosen.targets[j])]

\* Resolution came to no target Secret: no local target, or no Secret got.
NoTargetSecret == ~HasLocalTarget \/ env.secretGet = "err"

\* The credentials of the Secret the local target names.
SecretCredentials ==
    <<[Username |-> SecretData(LocalTarget.SecretName).username,
       Token |-> SecretData(LocalTarget.SecretName).password]>>

\* C21 as stated: when no token matched and a RemoteSecret passed the filter,
\* LookupCredentials returns no credentials and no error if resolution finds
\* no target Secret, and the Secret's basic-auth credentials otherwise.
C21_NoTargetSecretIsAbsent ==
    OnlyRemoteSecretsMatched =>
        IF NoTargetSecret THEN out.creds = <<>> /\ out.err = NoError
        ELSE out.creds = SecretCredentials /\ out.err = NoError

\* C21 amended: when no token matched and a RemoteSecret passed the filter,
\* LookupCredentials never returns no credentials without an error: it fails
\* with the "missing target" error when the chosen RemoteSecret has no local
\* target, with the error of the Secret Get when that fails, and returns the
\* Secret's basic-auth username and password otherwise.
C21_NoTargetSecretIsAnError ==
    OnlyRemoteSecretsMatched =>
        /\ matchingRemoteSecret # 0
        /\ ~(out.creds = <<>> /\ out.err = NoError)
        /\ IF ~HasLocalTarget
           THEN out.creds = <<>> /\ out.err = Error("missingTarget")
           ELSE IF env.secretGet = "err"
           THEN out.creds = <<>> /\ out.err = Error("secretGet")
           ELSE out.creds = SecretCredentials /\ out.err = NoError

\* C21 witness: two RemoteSecrets passed the filter, the chosen one has a
\* local target, and the Get of its Secret failed.
C21_Witness ==
    /\ OnlyRemoteSecretsMatched
    /\ Cardinality(PassingRemoteSecrets) = 2
    /\ HasLocalTarget
    /\ env.secretGet = "err"

\* LookupCredentials, called by the private check, returned no credentials
\* and no error.
AbsentCredentials ==
    /\ PrivateCheckEntered
    /\ out.done
    /\ out.creds = <<>>
    /\ out.err = NoError

\* C22: when LookupCredentials returns no credentials and no error to the
\* private check, the access check ends with Accessibility=Unknown,
\* Accessible=false and no ErrorReason, and neither builds an authenticated
\* client nor queries the project.
C22_AbsentCredentialsEndUnknown ==
    AbsentCredentials =>
        /\ ac.pc \in {"LookupCredentials", "returned"}
        /\ ac.answers.client = "?"
        /\ ac.answers.project = NoProject
        /\ ac.pc = "returned" =>
                /\ ac.err = NoError
                /\ ac.status.Accessibility = "Unknown"
                /\ ~ac.status.Accessible
                /\ ac.status.ErrorReason = ""
                /\ ac.status.ErrorMessage = ""

\* C22 witness: the access check returned after RemoteSecrets were listed
\* and none passed the filter.
C22_Witness ==
    /\ AbsentCredentials
    /\ ac.pc = "returned"
    /\ Len(env.remoteSecretList) > 0

\* C24: every status CheckRepositoryAccess returns has Accessible=false and
\* Accessibility=Unknown when it has an ErrorReason, and Accessible=true and
\* no ErrorReason when its Accessibility is Public or Private.
C24_StatusIsCoherent ==
    (ac.pc = "returned" /\ ac.err = NoError) =>
        /\ ac.status.ErrorReason # "" =>
                ~ac.status.Accessible /\ ac.status.Accessibility = "Unknown"
        /\ ac.status.Accessibility = "Public" =>
                ac.status.Accessible /\ ac.status.ErrorReason = ""
        /\ ac.status.Accessibility = "Private" =>
                ac.status.Accessible /\ ac.status.ErrorReason = ""

\* C24 witness: a status with a reason, returned after credentials came from
\* a Secret and the project lookup answered a success code other than 200.
C24_Witness ==
    /\ ac.pc = "returned"
    /\ ac.status.ErrorReason = "UnknownError"
    /\ ac.answers.project.StatusCode = "204"
    /\ log.secretGet # <<>>

\* C23: under fair scheduling, and with every MetadataCache.Ensure and
\* TokenFilter.Matches call returning, Lookup eventually returns, whatever
\* the interleaving of its goroutines: by then the barrier's counter is back
\* at zero, the mutex is free and no goroutine is left running.
C23_LookupEventuallyReturns ==
    <>(ret.done /\ wg = 0 /\ mutex = 0 /\ Running = {})

\* C23 witness: Lookup returned after two goroutines contended for the
\* mutex, one to append an error and one to append a match.
C23_Witness ==
    /\ ret.done
    /\ Len(errs) = 1
    /\ Len(result) = 1
    /\ \A t \in Tasks : tpc[t] = "exited"

====
